---- MODULE Spec2Model ----
(***************************************************************************)
(* Authentication core of gabo_studio: login, session resolution,         *)
(* change-password, forgot-password / reset-password and update-user,     *)
(* as a state machine over the credential store, the reset-token table,   *)
(* the wall clock and the requests in flight.                             *)
(*                                                                         *)
(* Time is counted in ticks, TicksPerSecond ticks to a second, so that    *)
(* the truncation of a bearer token's expiry to whole seconds is visible. *)
(***************************************************************************)
EXTENDS Integers, FiniteSets, Sequences, TLC

VARIABLES
    now,            \* wall clock, in ticks
    users,          \* table "user": id -> row
    reset_tokens,   \* table "password_reset_tokens": set of rows
    token_seq,      \* number of reset tokens generated so far (row ids, plaintexts)
    salt_seq,       \* number of hashes computed so far (every hash draws a fresh salt)
    outbox,         \* password-reset emails handed to the email sender
    issued,         \* history: bearer tokens returned by login
    resets_done,    \* history: plaintext -> number of password writes made for it
    req,            \* worker -> the request it is serving
    nreq,           \* number of requests accepted so far
    last,           \* the last response sent, with the request it answers
    profiles,       \* table "profile": id -> row
    contracts,      \* table "contract": id -> row
    events,         \* table "event": id -> row
    accommodations, \* table "accommodation": id -> row
    environ         \* the process environment, as read at startup

resource_tables == <<profiles, contracts, events, accommodations>>

vars == <<now, users, reset_tokens, token_seq, salt_seq, outbox, issued, resets_done, req, nreq, last,
          profiles, contracts, events, accommodations, environ>>

-----------------------------------------------------------------------------
(* Bounds of the model *)

TicksPerSecond == 2
MaxRequests == 3
MaxResetTokens == 2
NumWorkers == 2

(* Program constants *)

ACCESS_TOKEN_EXPIRE_MINUTES == 30
RESET_TOKEN_EXPIRE_MINUTES == 60

Workers == 1..NumWorkers
Passwords == {"pw_a", "pw_b"}
NewPasswords == {"pw_b"}              \* what a client sets as a new password
Usernames == {"alice", "bob", "carol"}
Emails == {"alice@x.org", "bob@x.org", "nobody@x.org"}
PlainTokens == 0..MaxResetTokens      \* 0 is a plaintext that is never generated
FrontendUrl == "http://localhost:5173"

AccessTtlTicks == ACCESS_TOKEN_EXPIRE_MINUTES * 60 * TicksPerSecond
ResetTtlTicks == RESET_TOKEN_EXPIRE_MINUTES * 60 * TicksPerSecond

\* The instants the clock visits: the start, and the neighbourhood of both expiries.
Instants == {0, 1, AccessTtlTicks, ResetTtlTicks, ResetTtlTicks + 1}

-----------------------------------------------------------------------------
(* Password hasher *)

\* pwd_context.hash: salted, so two hashes of one plaintext differ.
get_password_hash(salt, plain) == [salt |-> salt, of |-> plain]

\* pwd_context.verify
verify_password(plain, hashed) == hashed.of = plain

NoHash == [salt |-> 0, of |-> ""]

-----------------------------------------------------------------------------
(* Token codec *)

SECRET_KEY == "SECRET_KEY"
NoSub == "<no sub>"
NoExp == -1
NoToken == [sub |-> NoSub, exp |-> NoExp, alg |-> "", sig |-> ""]

\* os.getenv of a variable the environment does not set
Unset == "<unset>"

\* The environment of the deployment the other sections describe: .env sets both.
DeployedEnviron == [SECRET_KEY |-> SECRET_KEY, ALGORITHM |-> "HS256"]

\* ALGORITHM of app/core/config.py, which the issuer imports: 'HS256' when unset.
config_ALGORITHM == IF environ.ALGORITHM = Unset THEN "HS256" ELSE environ.ALGORITHM

\* ALGORITHM of app/api/security.py, which get_current_user uses: os.getenv without
\* a default, None when unset.
security_ALGORITHM == environ.ALGORITHM

\* An issuer that ignores the ttl it is given and uses a quarter of an hour.
create_access_token_quarter_hour(sub, at, delta) ==
    [sub |-> sub, exp |-> (at + 15 * 60 * TicksPerSecond) \div TicksPerSecond,
     alg |-> config_ALGORITHM, sig |-> SECRET_KEY]

\* jwt.encode of {sub, exp} with SECRET_KEY and algorithm=ALGORITHM: exp is
\* int(expire.timestamp()), whole seconds.
create_access_token(sub, at, delta) ==
    [sub |-> sub, exp |-> (at + delta) \div TicksPerSecond,
     alg |-> config_ALGORITHM, sig |-> SECRET_KEY]

decode_ok_late(token, at) ==
    /\ token.alg = security_ALGORITHM
    /\ token.sig = SECRET_KEY
    /\ token.exp # NoExp => token.exp * TicksPerSecond >= at

\* jwt.decode(token, SECRET_KEY, algorithms=[ALGORITHM]): the header's alg is one of
\* the algorithms allowed, the signature verifies and the expiry, when the claim is
\* there, is still ahead (exp <= now is expired).
decode_ok(token, at) ==
    /\ token.alg = security_ALGORITHM
    /\ token.sig = SECRET_KEY
    /\ token.exp # NoExp => token.exp * TicksPerSecond > at

\* An expiry, in seconds, that no instant of the clock reaches.
FarExp == 2 * RESET_TOKEN_EXPIRE_MINUTES * 60

\* Bearer strings a client may present besides the ones login returned: wrongly
\* signed, malformed, signed without a subject, signed for a name no account has.
ForgedTokens ==
    { [sub |-> "alice", exp |-> FarExp, alg |-> "HS256", sig |-> "OTHER_KEY"],
      [sub |-> "alice", exp |-> NoExp, alg |-> "", sig |-> "malformed"],
      [sub |-> NoSub, exp |-> FarExp, alg |-> "HS256", sig |-> SECRET_KEY],
      [sub |-> "carol", exp |-> FarExp, alg |-> "HS256", sig |-> SECRET_KEY] }

-----------------------------------------------------------------------------
(* Credential store *)

NoUser == [id |-> 0, username |-> "", email_address |-> "", password |-> NoHash, is_active |-> FALSE]

UserAuth(id) ==
    [id |-> id, username |-> users[id].username, email_address |-> users[id].email_address,
     password |-> users[id].password, is_active |-> users[id].is_active]

get_user_by_username(username) ==
    IF \E id \in DOMAIN users : users[id].username = username
    THEN UserAuth(CHOOSE id \in DOMAIN users : users[id].username = username)
    ELSE NoUser

get_user_by_email(email) ==
    IF \E id \in DOMAIN users : users[id].email_address = email
    THEN UserAuth(CHOOSE id \in DOMAIN users : users[id].email_address = email)
    ELSE NoUser

get_user_by_id(id) == IF id \in DOMAIN users THEN UserAuth(id) ELSE NoUser

\* update_user_password: the table after the write (unchanged when the id is absent)
update_user_password(id, hashed) ==
    IF id \in DOMAIN users THEN [users EXCEPT ![id].password = hashed] ELSE users

\* create_reset_token: the table with one more row
create_reset_token(id, user_id, token_hash, expires_at) ==
    reset_tokens \cup {[id |-> id, user_id |-> user_id, token_hash |-> token_hash, expires_at |-> expires_at]}

\* A deletion that takes every row of the deleted row's account with it.
delete_reset_tokens_of_account(id) ==
    {r \in reset_tokens : \A d \in reset_tokens : d.id = id => r.user_id # d.user_id}

\* delete_reset_token: a missing row is not an error
delete_reset_token(id) == {r \in reset_tokens : r.id # id}

-----------------------------------------------------------------------------
(* Responses *)

Response(status, detail, www, token) ==
    [status |-> status, detail |-> detail, www_authenticate |-> www,
     access_token |-> token, token_type |-> IF token.sig = "" THEN "" ELSE "bearer"]

LoginFailed == Response(401, "Incorrect username or password", "Bearer", NoToken)
CredentialsException == Response(401, "Could not validate credentials", "Bearer", NoToken)
InactiveUser == Response(400, "Inactive user", "", NoToken)
ForgotAccepted ==
    Response(202, "If an account with that email exists, a password reset link has been sent.", "", NoToken)
ResetDone == Response(200, "Password has been successfully reset.", "", NoToken)
InvalidTokenError == Response(400, "Invalid or already used password reset token.", "", NoToken)
ExpiredTokenError == Response(400, "Password reset token has expired.", "", NoToken)
UserNotFoundError == Response(500, "An internal error occurred. Please try again or contact support.", "", NoToken)
UnexpectedError ==
    Response(500, "An unexpected error occurred: Failed to update user password in database.", "", NoToken)
PasswordChanged == Response(200, "Password changed successfully.", "", NoToken)
IncorrectOldPassword == Response(400, "Incorrect old password.", "", NoToken)
ChangeInternalError == Response(500, "An internal error occurred while changing password.", "", NoToken)
InternalServerError == Response(500, "Internal Server Error", "", NoToken)
HandledInternalError == Response(500, "Internal server error", "", NoToken)
Ok == Response(200, "", "", NoToken)

Idle == [pc |-> "idle"]
Snapshot ==
    [now |-> now, users |-> users, reset_tokens |-> reset_tokens, outbox |-> outbox,
     profiles |-> profiles, contracts |-> contracts, events |-> events,
     accommodations |-> accommodations]

\* The response leaves the server: it is recorded with the request it answers, the
\* store as it was when the request arrived, and whether the endpoint's body ran.
Answer(op, args, pre, identity, ran, resp) ==
    [op |-> op, args |-> args, pre |-> pre, identity |-> identity, handler_ran |-> ran,
     resp |-> resp]

AllIdle == \A w \in Workers : req[w].pc = "idle"
Accept == nreq < MaxRequests /\ nreq' = nreq + 1

-----------------------------------------------------------------------------
InitialUsers ==
    (1 :> [username |-> "alice", email_address |-> "alice@x.org",
           password |-> get_password_hash(1, "pw_a"), is_active |-> TRUE]
  @@ 2 :> [username |-> "bob", email_address |-> "bob@x.org",
           password |-> get_password_hash(2, "pw_b"), is_active |-> TRUE])

\* alice and bob each have a profile; alice has offered bob a contract with one
\* event, which is lodged in accommodation 1; accommodation 2 is lodging nobody.
InitialProfiles ==
    (1 :> [user_id |-> 1, name |-> "alice solo"] @@ 2 :> [user_id |-> 2, name |-> "bob band"])
InitialContracts == (1 :> [offeror_id |-> 1, offeree_id |-> 2, name |-> "summer tour"])
InitialEvents == (1 :> [contract_id |-> 1, accommodation_id |-> 1, name |-> "opening night"])
InitialAccommodations == (1 :> [name |-> "hotel"] @@ 2 :> [name |-> "hostel"])

InitialSnapshot ==
    [now |-> 0, users |-> InitialUsers, reset_tokens |-> {}, outbox |-> {},
     profiles |-> InitialProfiles, contracts |-> InitialContracts, events |-> InitialEvents,
     accommodations |-> InitialAccommodations]

InitialResources ==
    /\ profiles = InitialProfiles
    /\ contracts = InitialContracts
    /\ events = InitialEvents
    /\ accommodations = InitialAccommodations

\* Two accounts are registered and nothing else has happened.
InitFresh ==
    /\ environ = DeployedEnviron
    /\ InitialResources
    /\ now = 0
    /\ users = InitialUsers
    /\ reset_tokens = {}
    /\ token_seq = 0
    /\ salt_seq = 2
    /\ outbox = {}
    /\ issued = {}
    /\ resets_done = [k \in PlainTokens |-> 0]
    /\ req = [w \in Workers |-> Idle]
    /\ nreq = 0
    /\ last = Answer("none", [x |-> 0],
                     InitialSnapshot,
                     0, FALSE, Ok)

\* The same, after alice asked for a password reset at time 0: her reset token is
\* outstanding (the state forgot_password leaves).
InitPending ==
    /\ environ = DeployedEnviron
    /\ InitialResources
    /\ now = 0
    /\ users = InitialUsers
    /\ reset_tokens = {[id |-> 1, user_id |-> 1, token_hash |-> get_password_hash(3, 1),
                        expires_at |-> ResetTtlTicks]}
    /\ token_seq = 1
    /\ salt_seq = 3
    /\ outbox = {[to |-> "alice@x.org", token |-> 1, frontend_url |-> FrontendUrl]}
    /\ issued = {}
    /\ resets_done = [k \in PlainTokens |-> 0]
    /\ req = [w \in Workers |-> Idle]
    /\ nreq = 0
    /\ last = Answer("forgot_password", [email |-> "alice@x.org"],
                     InitialSnapshot,
                     0, TRUE, ForgotAccepted)

Init == InitFresh \/ InitPending

\* The clock moves on.
Tick ==
    /\ \E t \in Instants : t > now /\ now' = t
    /\ UNCHANGED <<users, reset_tokens, token_seq, salt_seq, outbox, issued, resets_done, req, nreq, last>>
    /\ UNCHANGED resource_tables
    /\ UNCHANGED environ

-----------------------------------------------------------------------------
(* Login *)

authenticate_user_no_password_check(username, password) == get_user_by_username(username)

authenticate_user_active_only(username, password) ==
    LET user == get_user_by_username(username) IN
    IF user.id = 0 THEN NoUser
    ELSE IF ~verify_password(password, user.password) THEN NoUser
    ELSE IF ~user.is_active THEN NoUser
    ELSE user

authenticate_user(username, password) ==
    LET user == get_user_by_username(username) IN
    IF user.id = 0 THEN NoUser
    ELSE IF ~verify_password(password, user.password) THEN NoUser
    ELSE user

\* POST /token
login_for_access_token(w, username, password) ==
    /\ req[w].pc = "idle" /\ Accept
    /\ LET user == authenticate_user(username, password)
           args == [username |-> username, password |-> password]
           access_token == create_access_token(user.username, now, AccessTtlTicks)
       IN  IF user.id = 0
           THEN /\ last' = Answer("login", args, Snapshot, 0, TRUE, LoginFailed)
                /\ UNCHANGED issued
           ELSE /\ last' = Answer("login", args, Snapshot, 0, TRUE, Response(200, "", "", access_token))
                /\ issued' = issued \cup {[token |-> access_token, uid |-> user.id, at |-> now,
                                           password |-> user.password]}
    /\ UNCHANGED <<now, users, reset_tokens, token_seq, salt_seq, outbox, resets_done, req>>
    /\ UNCHANGED resource_tables
    /\ UNCHANGED environ

-----------------------------------------------------------------------------
(* Session resolution *)

get_current_user_unverified(token) == get_user_by_username(token.sub)

get_current_user_revoking(token) ==
    IF ~decode_ok(token, now) \/ token.sub = NoSub THEN NoUser
    ELSE IF \E i \in issued : i.token = token /\ i.uid \in DOMAIN users
                              /\ users[i.uid].password # i.password
    THEN NoUser
    ELSE get_user_by_username(token.sub)

\* get_current_user: the identity the bearer token resolves to, NoUser for the
\* credentials exception.
get_current_user(token) ==
    IF ~decode_ok(token, now) THEN NoUser
    ELSE IF token.sub = NoSub THEN NoUser
    ELSE get_user_by_username(token.sub)

get_current_active_user_lenient(current_user) == TRUE

\* get_current_active_user: the identity passes when its account is active.
get_current_active_user(current_user) == current_user.is_active

\* get_common_dependencies: get_current_user, then get_current_active_user; the
\* endpoint's body runs in a later step, with the identity resolved here.
get_common_dependencies(w, op, token, args) ==
    /\ req[w].pc = "idle" /\ Accept
    /\ LET current_user == get_current_user(token)
           a == [token |-> token, body |-> args]
       IN  IF current_user.id = 0
           THEN /\ last' = Answer(op, a, Snapshot, 0, FALSE, CredentialsException)
                /\ UNCHANGED req
           ELSE IF ~get_current_active_user(current_user)
           THEN /\ last' = Answer(op, a, Snapshot, current_user.id, FALSE, InactiveUser)
                /\ UNCHANGED req
           ELSE /\ req' = [req EXCEPT ![w] = [pc |-> "handler", op |-> op, args |-> a,
                                              current_user |-> current_user, pre |-> Snapshot]]
                /\ UNCHANGED last
    /\ UNCHANGED <<now, users, reset_tokens, token_seq, salt_seq, outbox, issued, resets_done>>
    /\ UNCHANGED resource_tables
    /\ UNCHANGED environ

Finish(w, resp) ==
    /\ last' = Answer(req[w].op, req[w].args, req[w].pre,
                      IF req[w].pc = "handler" THEN req[w].current_user.id ELSE 0, TRUE, resp)
    /\ req' = [req EXCEPT ![w] = Idle]

\* GET /user/me/
get_user_me(w) ==
    /\ req[w].pc = "handler" /\ req[w].op = "get_user_me"
    /\ Finish(w, Ok)
    /\ UNCHANGED <<now, users, reset_tokens, token_seq, salt_seq, outbox, issued, resets_done, nreq>>
    /\ UNCHANGED resource_tables
    /\ UNCHANGED environ

change_password_unverified(w) ==
    /\ req[w].pc = "handler" /\ req[w].op = "change_password"
    /\ salt_seq' = salt_seq + 1
    /\ users' = update_user_password(req[w].current_user.id,
                                     get_password_hash(salt_seq + 1, req[w].args.body.new_password))
    /\ Finish(w, IF verify_password(req[w].args.body.old_password, req[w].current_user.password)
                 THEN PasswordChanged ELSE IncorrectOldPassword)
    /\ UNCHANGED <<now, reset_tokens, token_seq, outbox, issued, resets_done, nreq>>
    /\ UNCHANGED resource_tables
    /\ UNCHANGED environ

\* POST /change_password, with AuthService.change_user_password
change_password(w) ==
    /\ req[w].pc = "handler" /\ req[w].op = "change_password"
    /\ LET current_user == req[w].current_user
           body == req[w].args.body
       IN  IF ~verify_password(body.old_password, current_user.password)
           THEN /\ Finish(w, IncorrectOldPassword)
                /\ UNCHANGED <<users, salt_seq>>
           ELSE /\ salt_seq' = salt_seq + 1
                /\ users' = update_user_password(current_user.id,
                                                 get_password_hash(salt_seq + 1, body.new_password))
                /\ IF current_user.id \in DOMAIN users
                   THEN Finish(w, PasswordChanged)
                   ELSE Finish(w, ChangeInternalError)
    /\ UNCHANGED <<now, reset_tokens, token_seq, outbox, issued, resets_done, nreq>>
    /\ UNCHANGED resource_tables
    /\ UNCHANGED environ

\* The unique constraint on the username alone.
unique_violation_username_only(id, row) ==
    \E o \in DOMAIN users :
        /\ o # id
        /\ users[o].username = row.username

\* The unique constraints of table "user": the row, stored under id, would carry a
\* username or an email address that another row has.
unique_violation(id, row) ==
    \E o \in DOMAIN users :
        /\ o # id
        /\ \/ users[o].username = row.username
           \/ users[o].email_address = row.email_address

\* The row after setattr(user, key, value) for every key the request provided.
updated_row(row, provided) ==
    [f \in DOMAIN row |-> IF f \in DOMAIN provided THEN provided[f] ELSE row[f]]

\* PATCH /user, with SQLAlchemyDataManager.update_user: the body carries the fields
\* the client set (model_dump(exclude_unset=True)). A missing account or a unique
\* violation at the commit is rolled back and ends in handle_exceptions.
update_user(w) ==
    /\ req[w].pc = "handler" /\ req[w].op = "update_user"
    /\ LET id == req[w].current_user.id
           provided == req[w].args.body
       IN  IF id \notin DOMAIN users
           THEN Finish(w, HandledInternalError) /\ UNCHANGED users
           ELSE IF unique_violation(id, updated_row(users[id], provided))
           THEN Finish(w, HandledInternalError) /\ UNCHANGED users
           ELSE /\ users' = [users EXCEPT ![id] = updated_row(@, provided)]
                /\ Finish(w, Ok)
    /\ UNCHANGED <<now, reset_tokens, token_seq, salt_seq, outbox, issued, resets_done, nreq>>
    /\ UNCHANGED resource_tables
    /\ UNCHANGED environ

-----------------------------------------------------------------------------
(* Registration *)

Created == Response(201, "", "", NoToken)
DuplicateIdentity == Response(409, "Username '<username>' or email '<email>' already exists.", "", NoToken)
RegistrationFailed ==
    Response(500, "Failed to register user due to an internal error: <text of the store's exception>", "", NoToken)

\* create_user: the table with the new account under the next id.
create_user(user_data, hashed_pwd) ==
    users @@ (Cardinality(DOMAIN users) + 1 :>
                 [username |-> user_data.username, email_address |-> user_data.email_address,
                  password |-> hashed_pwd, is_active |-> user_data.is_active])

\* AuthService.register_user: what it raises for what the data manager raised.
register_user(raised) ==
    CASE raised = "none" -> "none"
      [] raised = "ValueError" -> "ValueError"
      [] OTHER -> "RuntimeError"

\* The try/except of sign_up: the response it returns, or the HTTPException it raises.
sign_up_outcome(raised) ==
    CASE raised = "none" -> Created
      [] raised = "ValueError" -> DuplicateIdentity
      [] raised = "RuntimeError" -> RegistrationFailed

\* handle_exceptions around an endpoint: an HTTPException raised in the endpoint's
\* body is none of the exceptions it re-raises, so the last clause, except Exception,
\* replaces it by 500 "Internal server error".
handle_exceptions(outcome) ==
    IF outcome.status \in {200, 201} THEN outcome ELSE HandledInternalError

\* POST /user, with AuthService.register_user: the password is hashed, then the
\* account is added and committed; the commit fails on a unique violation.
sign_up(w, user_data) ==
    /\ req[w].pc = "idle" /\ Accept
    /\ salt_seq' = salt_seq + 1
    /\ LET hashed_pwd == get_password_hash(salt_seq + 1, user_data.password)
           duplicate == unique_violation(0, user_data)
           raised == register_user(IF duplicate THEN "ValueError" ELSE "none")
       IN  /\ users' = IF duplicate THEN users ELSE create_user(user_data, hashed_pwd)
           /\ last' = Answer("sign_up", [user_data |-> user_data, store |-> "up"], Snapshot, 0, TRUE,
                             handle_exceptions(sign_up_outcome(raised)))
    /\ UNCHANGED <<now, reset_tokens, token_seq, outbox, issued, resets_done, req>>
    /\ UNCHANGED resource_tables
    /\ UNCHANGED environ

-----------------------------------------------------------------------------
(* Forgot password *)

reset_expires_at_short(at) == at + AccessTtlTicks

\* expires_at = datetime.now(timezone.utc) + timedelta(minutes=60)
reset_expires_at(at) == at + ResetTtlTicks

forgot_password_response_revealing(user) ==
    IF user.id = 0 THEN Response(404, "User not found", "", NoToken) ELSE ForgotAccepted

\* What the endpoint returns once handle_forgot_password has returned.
forgot_password_response(user) == ForgotAccepted

\* POST /forgot-password, with AuthService.handle_forgot_password. The token is
\* secrets.token_urlsafe(32): a value never generated before. send_fails: the email
\* sender raises, and nothing catches it.
forgot_password(w, email, send_fails) ==
    /\ req[w].pc = "idle" /\ Accept
    /\ LET user == get_user_by_email(email)
           args == [email |-> email]
           token == token_seq + 1
           hashed_token == get_password_hash(salt_seq + 1, token)
           expires_at == reset_expires_at(now)
       IN  IF user.id # 0
           THEN /\ token_seq < MaxResetTokens
                /\ token_seq' = token_seq + 1
                /\ salt_seq' = salt_seq + 1
                /\ reset_tokens' = create_reset_token(token_seq + 1, user.id, hashed_token, expires_at)
                /\ IF send_fails
                   THEN /\ outbox' = outbox
                        /\ last' = Answer("forgot_password", args, Snapshot, 0, TRUE, InternalServerError)
                   ELSE /\ outbox' = outbox \cup {[to |-> user.email_address, token |-> token,
                                                   frontend_url |-> FrontendUrl]}
                        /\ last' = Answer("forgot_password", args, Snapshot, 0, TRUE,
                                          forgot_password_response(user))
           ELSE /\ ~send_fails
                /\ last' = Answer("forgot_password", args, Snapshot, 0, TRUE,
                                  forgot_password_response(user))
                /\ UNCHANGED <<reset_tokens, token_seq, salt_seq, outbox>>
    /\ UNCHANGED <<now, users, issued, resets_done, req>>
    /\ UNCHANGED resource_tables
    /\ UNCHANGED environ

-----------------------------------------------------------------------------
(* Reset password: AuthService.reset_user_password, one step per store access *)

\* The scan over the rows that are unexpired now.
reset_scan(w, token, new_password) ==
    /\ req[w].pc = "idle" /\ Accept
    /\ LET active_tokens == {t \in reset_tokens : t.expires_at > now}
           matching == {t \in active_tokens : verify_password(token, t.token_hash)}
           args == [token |-> token, new_password |-> new_password]
       IN  IF matching = {}
           THEN /\ last' = Answer("reset_password", args, Snapshot, 0, TRUE, InvalidTokenError)
                /\ UNCHANGED req
           ELSE /\ req' = [req EXCEPT ![w] =
                     [pc |-> "check", op |-> "reset_password", args |-> args, pre |-> Snapshot,
                      reset_token_record |->
                          CHOOSE t \in matching : \A o \in matching : t.id <= o.id]]
                /\ UNCHANGED last
    /\ UNCHANGED <<now, users, reset_tokens, token_seq, salt_seq, outbox, issued, resets_done>>
    /\ UNCHANGED resource_tables
    /\ UNCHANGED environ

reset_check_keeps_orphan(w) ==
    /\ req[w].pc = "check"
    /\ LET record == req[w].reset_token_record
           user_to_reset == get_user_by_id(record.user_id)
       IN  IF record.expires_at < now
           THEN /\ reset_tokens' = delete_reset_token(record.id)
                /\ Finish(w, ExpiredTokenError)
           ELSE IF user_to_reset.id = 0
           THEN /\ UNCHANGED reset_tokens
                /\ Finish(w, UserNotFoundError)
           ELSE /\ req' = [req EXCEPT ![w].pc = "update"]
                /\ UNCHANGED <<reset_tokens, last>>
    /\ UNCHANGED <<now, users, token_seq, salt_seq, outbox, issued, resets_done, nreq>>
    /\ UNCHANGED resource_tables
    /\ UNCHANGED environ

\* The second expiry check, then the owner's lookup.
reset_check(w) ==
    /\ req[w].pc = "check"
    /\ LET record == req[w].reset_token_record
           user_to_reset == get_user_by_id(record.user_id)
       IN  IF record.expires_at < now
           THEN /\ reset_tokens' = delete_reset_token(record.id)
                /\ Finish(w, ExpiredTokenError)
           ELSE IF user_to_reset.id = 0
           THEN /\ reset_tokens' = delete_reset_token(record.id)
                /\ Finish(w, UserNotFoundError)
           ELSE /\ req' = [req EXCEPT ![w].pc = "update"]
                /\ UNCHANGED <<reset_tokens, last>>
    /\ UNCHANGED <<now, users, token_seq, salt_seq, outbox, issued, resets_done, nreq>>
    /\ UNCHANGED resource_tables
    /\ UNCHANGED environ

\* The password write.
reset_update(w) ==
    /\ req[w].pc = "update"
    /\ LET id == req[w].reset_token_record.user_id IN
         /\ users' = update_user_password(id, get_password_hash(salt_seq + 1, req[w].args.new_password))
         /\ salt_seq' = salt_seq + 1
         /\ IF id \in DOMAIN users
            THEN /\ req' = [req EXCEPT ![w].pc = "delete"]
                 /\ resets_done' = [resets_done EXCEPT ![req[w].args.token] = @ + 1]
                 /\ UNCHANGED last
            ELSE /\ Finish(w, UnexpectedError)
                 /\ UNCHANGED resets_done
    /\ UNCHANGED <<now, reset_tokens, token_seq, outbox, issued, nreq>>
    /\ UNCHANGED resource_tables
    /\ UNCHANGED environ

reset_delete_skipped(w) ==
    /\ req[w].pc = "delete"
    /\ Finish(w, ResetDone)
    /\ UNCHANGED <<now, users, reset_tokens, token_seq, salt_seq, outbox, issued, resets_done, nreq>>
    /\ UNCHANGED resource_tables
    /\ UNCHANGED environ

\* The consumed row's deletion, and the success response.
reset_delete(w) ==
    /\ req[w].pc = "delete"
    /\ reset_tokens' = delete_reset_token(req[w].reset_token_record.id)
    /\ Finish(w, ResetDone)
    /\ UNCHANGED <<now, users, token_seq, salt_seq, outbox, issued, resets_done, nreq>>
    /\ UNCHANGED resource_tables
    /\ UNCHANGED environ

-----------------------------------------------------------------------------
Returned == {i.token : i \in issued}
Presentable == ForgedTokens \cup Returned

Arrive(w) ==
    \/ \E u \in Usernames, p \in Passwords : login_for_access_token(w, u, p)
    \/ \E t \in Presentable : get_common_dependencies(w, "get_user_me", t, [x |-> 0])
    \/ \E t \in Returned, o \in Passwords, n \in NewPasswords :
         get_common_dependencies(w, "change_password", t, [old_password |-> o, new_password |-> n])
    \/ \E t \in Returned, u \in Usernames :
         get_common_dependencies(w, "update_user", t, [username |-> u])
    \/ \E e \in Emails, f \in BOOLEAN : forgot_password(w, e, f)
    \/ \E k \in PlainTokens, n \in NewPasswords : reset_scan(w, k, n)

Serve(w) ==
    \/ get_user_me(w)
    \/ change_password(w)
    \/ update_user(w)
    \/ reset_check(w)
    \/ reset_update(w)
    \/ reset_delete(w)

\* One request at a time: a request arrives only when none is being served.
Next ==
    \/ Tick
    \/ AllIdle /\ Arrive(1)
    \/ Serve(1)

Spec == Init /\ [][Next]_vars

\* The reset flow with its requests served concurrently, one worker each.
NextConcurrent ==
    \/ Tick
    \/ \E w \in Workers, e \in Emails, f \in BOOLEAN : forgot_password(w, e, f)
    \/ \E w \in Workers, k \in PlainTokens, n \in NewPasswords : reset_scan(w, k, n)
    \/ \E w \in Workers : reset_check(w)
    \/ \E w \in Workers : reset_update(w)
    \/ \E w \in Workers : reset_delete(w)

SpecConcurrent == Init /\ [][NextConcurrent]_vars

-----------------------------------------------------------------------------
(* Accounts: registration, update-user and the protected endpoints, served
   concurrently *)

\* alice and bob have logged in at time 0 and hold their bearer tokens.
InitLoggedIn ==
    /\ environ = DeployedEnviron
    /\ InitialResources
    /\ now = 0
    /\ users = InitialUsers
    /\ reset_tokens = {}
    /\ token_seq = 0
    /\ salt_seq = 2
    /\ outbox = {}
    /\ issued = {[token |-> create_access_token(InitialUsers[id].username, 0, AccessTtlTicks),
                  uid |-> id, at |-> 0, password |-> InitialUsers[id].password] : id \in {1, 2}}
    /\ resets_done = [k \in PlainTokens |-> 0]
    /\ req = [w \in Workers |-> Idle]
    /\ nreq = 0
    /\ last = Answer("login", [username |-> "bob", password |-> "pw_b"],
                     InitialSnapshot,
                     0, TRUE, Response(200, "", "", create_access_token("bob", 0, AccessTtlTicks)))

\* What a client sends to POST /user.
UserCreatePydantic ==
    [username : Usernames, email_address : Emails, password : {"pw_a"}, is_active : BOOLEAN]

\* What a client sends to PATCH /user: the fields it sets.
UserUpdatePydantic ==
    [username : Usernames] \cup [email_address : Emails] \cup [is_active : {FALSE}]

NextAccounts ==
    \/ \E w \in Workers, d \in UserCreatePydantic : sign_up(w, d)
    \/ \E w \in Workers, u \in Usernames, p \in Passwords : login_for_access_token(w, u, p)
    \/ \E w \in Workers, t \in Returned : get_common_dependencies(w, "get_user_me", t, [x |-> 0])
    \/ \E w \in Workers, t \in Returned, b \in UserUpdatePydantic :
         get_common_dependencies(w, "update_user", t, b)
    \/ \E w \in Workers : get_user_me(w)
    \/ \E w \in Workers : update_user(w)

SpecAccounts == InitLoggedIn /\ [][NextAccounts]_vars

-----------------------------------------------------------------------------
(* Profiles, contracts, events and accommodations. The data manager's ...NotFound
   and ...UserMismatch exceptions are answered by the application's handlers for
   ResourceNotFoundException (404) and ResourceUserMismatchException (403). *)

ResourceNotFound == Response(404, "<resource> with ID <id> not found.", "", NoToken)
ResourceUserMismatch ==
    Response(403, "<resource> with ID <id> does not belong to the current user with ID <user_id>.", "", NoToken)
NoContent == Response(200, "null", "", NoToken)
DeletedSuccessfully == Response(200, "<resource> deleted successfully", "", NoToken)

ResourceIds == {1, 2, 3}
auth_state == <<now, users, reset_tokens, token_seq, salt_seq, outbox, issued, resets_done, nreq>>

\* session.delete(row) and commit
without(table, id) == [i \in DOMAIN table \ {id} |-> table[i]]

\* GET /profile/{profile_id}, with get_profile_by_id: the endpoint asks for no bearer
\* token, so whatever the client sends as one is not looked at.
get_profile(w, token, profile_id) ==
    /\ req[w].pc = "idle" /\ Accept
    /\ last' = Answer("get_profile", [token |-> token, body |-> [id |-> profile_id]], Snapshot, 0, TRUE,
                      IF profile_id \in DOMAIN profiles THEN Ok ELSE NoContent)
    /\ UNCHANGED <<now, users, reset_tokens, token_seq, salt_seq, outbox, issued, resets_done, req>>
    /\ UNCHANGED resource_tables
    /\ UNCHANGED environ

\* PUT /profile/{profile_id}, with update_profile
update_profile(w) ==
    /\ req[w].pc = "handler" /\ req[w].op = "update_profile"
    /\ LET profile_id == req[w].args.body.id IN
         IF profile_id \notin DOMAIN profiles
         THEN Finish(w, ResourceNotFound) /\ UNCHANGED profiles
         ELSE IF profiles[profile_id].user_id # req[w].current_user.id
         THEN Finish(w, ResourceUserMismatch) /\ UNCHANGED profiles
         ELSE /\ profiles' = [profiles EXCEPT ![profile_id] = updated_row(@, req[w].args.body.provided)]
              /\ Finish(w, Ok)
    /\ UNCHANGED <<auth_state, contracts, events, accommodations>>
    /\ UNCHANGED environ

\* DELETE /profile/{profile_id}, with delete_profile
delete_profile(w) ==
    /\ req[w].pc = "handler" /\ req[w].op = "delete_profile"
    /\ LET profile_id == req[w].args.body.id IN
         IF profile_id \notin DOMAIN profiles
         THEN Finish(w, ResourceNotFound) /\ UNCHANGED profiles
         ELSE IF profiles[profile_id].user_id # req[w].current_user.id
         THEN Finish(w, ResourceUserMismatch) /\ UNCHANGED profiles
         ELSE /\ profiles' = without(profiles, profile_id)
              /\ Finish(w, DeletedSuccessfully)
    /\ UNCHANGED <<auth_state, contracts, events, accommodations>>
    /\ UNCHANGED environ

\* get_contract_by_id: the query keeps the contract when the caller is its offeror
\* or its offeree; the check that follows lets only the offeror through.
get_contract_by_id(contract_id, current_user_id) ==
    IF \/ contract_id \notin DOMAIN contracts
       \/ current_user_id \notin {contracts[contract_id].offeror_id, contracts[contract_id].offeree_id}
    THEN ResourceNotFound
    ELSE IF contracts[contract_id].offeror_id # current_user_id
    THEN ResourceUserMismatch
    ELSE Ok

\* get_contract_events: an offeror's contract without events raises EventNotFoundException.
get_contract_events(contract_id, current_user_id) ==
    IF contract_id \notin DOMAIN contracts THEN ResourceNotFound
    ELSE IF contracts[contract_id].offeror_id # current_user_id THEN ResourceUserMismatch
    ELSE IF ~\E e \in DOMAIN events : events[e].contract_id = contract_id THEN ResourceNotFound
    ELSE Ok

\* GET /contract/{contract_id}
get_contract(w) ==
    /\ req[w].pc = "handler" /\ req[w].op = "get_contract"
    /\ LET contract_dict == get_contract_by_id(req[w].args.body.id, req[w].current_user.id) IN
         IF contract_dict # Ok THEN Finish(w, contract_dict)
         ELSE Finish(w, get_contract_events(req[w].args.body.id, req[w].current_user.id))
    /\ UNCHANGED <<auth_state, profiles, contracts, events, accommodations>>
    /\ UNCHANGED environ

\* PUT /contract/{contract_id}, with update_contract
update_contract(w) ==
    /\ req[w].pc = "handler" /\ req[w].op = "update_contract"
    /\ LET contract_id == req[w].args.body.id IN
         IF contract_id \notin DOMAIN contracts
         THEN Finish(w, ResourceNotFound) /\ UNCHANGED contracts
         ELSE IF contracts[contract_id].offeror_id # req[w].current_user.id
         THEN Finish(w, ResourceUserMismatch) /\ UNCHANGED contracts
         ELSE /\ contracts' = [contracts EXCEPT ![contract_id] = updated_row(@, req[w].args.body.provided)]
              /\ Finish(w, get_contract_by_id(contract_id, req[w].current_user.id))
    /\ UNCHANGED <<auth_state, profiles, events, accommodations>>
    /\ UNCHANGED environ

\* The offeror of the contract an event belongs to.
event_offeror_id(event_id) == contracts[events[event_id].contract_id].offeror_id

\* The application's handler for an IntegrityError that is not a unique violation.
DatabaseIntegrityError == Response(500, "Database integrity error", "", NoToken)

\* PUT /event/{event_id}, with update_event: the existence and ownership checks, the
\* write of the provided fields and its commit (refused by the foreign key when
\* contract_id names no contract), and then get_event_by_id on the committed row,
\* which checks the ownership again, now through the row's new contract; the
\* rollback that follows its exception finds nothing left to undo.
update_event(w) ==
    /\ req[w].pc = "handler" /\ req[w].op = "update_event"
    /\ LET event_id == req[w].args.body.id
           current_user_id == req[w].current_user.id
       IN  IF event_id \notin DOMAIN events
           THEN Finish(w, ResourceNotFound) /\ UNCHANGED events
           ELSE IF event_offeror_id(event_id) # current_user_id
           THEN Finish(w, ResourceUserMismatch) /\ UNCHANGED events
           ELSE LET row == updated_row(events[event_id], req[w].args.body.provided) IN
                IF row.contract_id \notin DOMAIN contracts
                THEN Finish(w, DatabaseIntegrityError) /\ UNCHANGED events
                ELSE /\ events' = [events EXCEPT ![event_id] = row]
                     /\ IF contracts[row.contract_id].offeror_id # current_user_id
                        THEN Finish(w, ResourceUserMismatch)
                        ELSE Finish(w, Ok)
    /\ UNCHANGED <<auth_state, profiles, contracts, accommodations>>
    /\ UNCHANGED environ

\* DELETE /event/{event_id}, with delete_event
delete_event(w) ==
    /\ req[w].pc = "handler" /\ req[w].op = "delete_event"
    /\ LET event_id == req[w].args.body.id IN
         IF event_id \notin DOMAIN events
         THEN Finish(w, ResourceNotFound) /\ UNCHANGED events
         ELSE IF event_offeror_id(event_id) # req[w].current_user.id
         THEN Finish(w, ResourceUserMismatch) /\ UNCHANGED events
         ELSE /\ events' = without(events, event_id)
              /\ Finish(w, DeletedSuccessfully)
    /\ UNCHANGED <<auth_state, profiles, contracts, accommodations>>
    /\ UNCHANGED environ

\* PUT /accommodation/{accommodation_id}, with update_accommodation: the caller's
\* identity is not passed to the data manager.
update_accommodation(w) ==
    /\ req[w].pc = "handler" /\ req[w].op = "update_accommodation"
    /\ LET accommodation_id == req[w].args.body.id IN
         IF accommodation_id \notin DOMAIN accommodations
         THEN Finish(w, ResourceNotFound) /\ UNCHANGED accommodations
         ELSE /\ accommodations' = [accommodations EXCEPT ![accommodation_id] =
                                        updated_row(@, req[w].args.body.provided)]
              /\ Finish(w, Ok)
    /\ UNCHANGED <<auth_state, profiles, contracts, events>>
    /\ UNCHANGED environ

\* DELETE /accommodation/{accommodation_id}, with delete_accommodation: the foreign
\* key of an event that is lodged there refuses the delete (DatabaseError).
delete_accommodation(w) ==
    /\ req[w].pc = "handler" /\ req[w].op = "delete_accommodation"
    /\ LET accommodation_id == req[w].args.body.id IN
         IF accommodation_id \notin DOMAIN accommodations
         THEN Finish(w, ResourceNotFound) /\ UNCHANGED accommodations
         ELSE IF \E e \in DOMAIN events : events[e].accommodation_id = accommodation_id
         THEN Finish(w, HandledInternalError) /\ UNCHANGED accommodations
         ELSE /\ accommodations' = without(accommodations, accommodation_id)
              /\ Finish(w, DeletedSuccessfully)
    /\ UNCHANGED <<auth_state, profiles, contracts, events>>
    /\ UNCHANGED environ

UpdateOps == {"update_profile", "update_contract", "update_event", "update_accommodation"}
DeleteOps == {"delete_profile", "delete_event", "delete_accommodation"}

ArriveResources(w) ==
    \/ \E d \in UserCreatePydantic : sign_up(w, d)
    \/ \E u \in Usernames, p \in Passwords : login_for_access_token(w, u, p)
    \/ \E t \in Returned, id \in ResourceIds : get_profile(w, t, id)
    \/ \E t \in Returned, id \in ResourceIds :
         get_common_dependencies(w, "get_contract", t, [id |-> id])
    \/ \E t \in Returned, id \in ResourceIds, op \in UpdateOps :
         get_common_dependencies(w, op, t, [id |-> id, provided |-> [name |-> "renamed"]])
    \/ \E t \in Returned, id \in ResourceIds, op \in DeleteOps :
         get_common_dependencies(w, op, t, [id |-> id])

\* One request at a time.
NextResources ==
    \/ AllIdle /\ ArriveResources(1)
    \/ update_profile(1)
    \/ delete_profile(1)
    \/ get_contract(1)
    \/ update_contract(1)
    \/ update_event(1)
    \/ delete_event(1)
    \/ update_accommodation(1)
    \/ delete_accommodation(1)

SpecResources == InitLoggedIn /\ [][NextResources]_vars

-----------------------------------------------------------------------------
(* Every endpoint behind get_common_dependencies, one request at a time, with
   accounts that register as inactive or deactivate themselves *)

ArriveProtected(w) ==
    \/ \E d \in UserCreatePydantic : sign_up(w, d)
    \/ \E u \in Usernames, p \in Passwords : login_for_access_token(w, u, p)
    \/ \E t \in Presentable : get_common_dependencies(w, "get_user_me", t, [x |-> 0])
    \/ \E t \in Returned, b \in UserUpdatePydantic :
         get_common_dependencies(w, "update_user", t, b)
    \/ \E t \in Returned, o \in Passwords, n \in NewPasswords :
         get_common_dependencies(w, "change_password", t, [old_password |-> o, new_password |-> n])
    \/ \E t \in Returned : get_common_dependencies(w, "get_contract", t, [id |-> 1])
    \/ \E t \in Returned, op \in UpdateOps :
         get_common_dependencies(w, op, t, [id |-> 1, provided |-> [name |-> "renamed"]])
    \/ \E t \in Returned, op \in DeleteOps : get_common_dependencies(w, op, t, [id |-> 1])

NextProtected ==
    \/ AllIdle /\ ArriveProtected(1)
    \/ get_user_me(1)
    \/ update_user(1)
    \/ change_password(1)
    \/ get_contract(1)
    \/ update_profile(1)
    \/ delete_profile(1)
    \/ update_contract(1)
    \/ update_event(1)
    \/ delete_event(1)
    \/ update_accommodation(1)
    \/ delete_accommodation(1)

SpecProtected == InitLoggedIn /\ [][NextProtected]_vars

-----------------------------------------------------------------------------
(* The same handlers when a call to the store raises (connection lost, statement
   refused): every data-manager method commits its own write, and the service and
   the endpoints roll nothing back. *)

UnexpectedStoreError ==
    Response(500, "An unexpected error occurred: <text of the store's exception>", "", NoToken)

\* POST /user when the commit of the new account raises something that is not a
\* unique violation.
sign_up_store_fails(w, user_data) ==
    /\ req[w].pc = "idle" /\ Accept
    /\ ~unique_violation(0, user_data)
    /\ salt_seq' = salt_seq + 1
    /\ last' = Answer("sign_up", [user_data |-> user_data, store |-> "down"], Snapshot, 0, TRUE,
                      handle_exceptions(sign_up_outcome(register_user("OperationalError"))))
    /\ UNCHANGED <<now, users, reset_tokens, token_seq, outbox, issued, resets_done, req>>
    /\ UNCHANGED resource_tables
    /\ UNCHANGED environ

\* POST /change_password when update_user_password raises: the last except clause
\* of the endpoint puts the exception's text into the detail.
change_password_store_fails(w) ==
    /\ req[w].pc = "handler" /\ req[w].op = "change_password"
    /\ verify_password(req[w].args.body.old_password, req[w].current_user.password)
    /\ salt_seq' = salt_seq + 1
    /\ Finish(w, UnexpectedStoreError)
    /\ UNCHANGED <<now, users, reset_tokens, token_seq, outbox, issued, resets_done, nreq>>
    /\ UNCHANGED resource_tables
    /\ UNCHANGED environ

\* POST /reset-password when update_user_password raises.
reset_update_store_fails(w) ==
    /\ req[w].pc = "update"
    /\ salt_seq' = salt_seq + 1
    /\ Finish(w, UnexpectedStoreError)
    /\ UNCHANGED <<now, users, reset_tokens, token_seq, outbox, issued, resets_done, nreq>>
    /\ UNCHANGED resource_tables
    /\ UNCHANGED environ

\* POST /reset-password when delete_reset_token raises: the new password has been
\* committed by update_user_password, the token's row stays.
reset_delete_store_fails(w) ==
    /\ req[w].pc = "delete"
    /\ Finish(w, UnexpectedStoreError)
    /\ UNCHANGED <<now, users, reset_tokens, token_seq, salt_seq, outbox, issued, resets_done, nreq>>
    /\ UNCHANGED resource_tables
    /\ UNCHANGED environ

ArriveFaulty(w) ==
    \/ \E d \in UserCreatePydantic : sign_up(w, d)
    \/ \E d \in UserCreatePydantic : sign_up_store_fails(w, d)
    \/ \E u \in Usernames, p \in Passwords : login_for_access_token(w, u, p)
    \/ \E t \in Returned, o \in Passwords, n \in NewPasswords :
         get_common_dependencies(w, "change_password", t, [old_password |-> o, new_password |-> n])
    \/ \E k \in PlainTokens, n \in NewPasswords : reset_scan(w, k, n)

\* One request at a time, over a store that may fail.
NextFaulty ==
    \/ AllIdle /\ ArriveFaulty(1)
    \/ change_password(1)
    \/ change_password_store_fails(1)
    \/ reset_check(1)
    \/ reset_update(1)
    \/ reset_update_store_fails(1)
    \/ reset_delete(1)
    \/ reset_delete_store_fails(1)

SpecFaulty == Init /\ [][NextFaulty]_vars
-----------------------------------------------------------------------------
(* The two issuers, called with and without a ttl *)

\* expires_delta: timedelta | None. <<>> is None, <<d>> a timedelta of d ticks.
ExpiresDeltas == {<<>>, <<0>>, <<1>>, <<2 * 60 * TicksPerSecond>>, <<AccessTtlTicks>>}

expires_delta_or_quarter_hour(expires_delta) ==
    IF expires_delta # <<>> /\ expires_delta[1] # 0
    THEN expires_delta[1]
    ELSE 15 * 60 * TicksPerSecond

\* AuthService.create_access_token: "if expires_delta:" takes the given ttl unless it
\* is None or a zero timedelta; otherwise ACCESS_TOKEN_EXPIRE_MINUTES is used.
auth_service_expires_delta(expires_delta) ==
    IF expires_delta # <<>> /\ expires_delta[1] # 0
    THEN expires_delta[1]
    ELSE ACCESS_TOKEN_EXPIRE_MINUTES * 60 * TicksPerSecond

\* create_access_token of Oauth2.py: the same test, and timedelta(minutes=15) otherwise.
oauth2_expires_delta(expires_delta) ==
    IF expires_delta # <<>> /\ expires_delta[1] # 0
    THEN expires_delta[1]
    ELSE 15 * 60 * TicksPerSecond

Issuers == {"AuthService", "Oauth2"}

\* One call of an issuer, with the subject and the ttl the caller gives.
issue(issuer, sub, expires_delta) ==
    /\ AllIdle
    /\ LET delta == IF issuer = "AuthService"
                    THEN auth_service_expires_delta(expires_delta)
                    ELSE oauth2_expires_delta(expires_delta)
       IN  last' = Answer("create_access_token",
                          [issuer |-> issuer, sub |-> sub, expires_delta |-> expires_delta],
                          Snapshot, 0, TRUE,
                          Response(200, "", "", create_access_token(sub, now, delta)))
    /\ UNCHANGED <<now, users, reset_tokens, token_seq, salt_seq, outbox, issued, resets_done, req, nreq>>
    /\ UNCHANGED resource_tables
    /\ UNCHANGED environ

NextIssuers ==
    \/ Tick
    \/ \E i \in Issuers, sub \in Usernames, d \in ExpiresDeltas : issue(i, sub, d)

SpecIssuers == InitFresh /\ [][NextIssuers]_vars
-----------------------------------------------------------------------------
(* Deployments: the environments the application starts in *)

Environs == [SECRET_KEY : {Unset, SECRET_KEY}, ALGORITHM : {Unset, "", "HS256", "HS512"}]

\* app/core/config.py at import: SECRET_KEY must be set, and ALGORITHM, after its
\* default 'HS256' for an unset variable, must not be empty.
startup_succeeds(env) ==
    /\ env.SECRET_KEY # Unset
    /\ (IF env.ALGORITHM = Unset THEN "HS256" ELSE env.ALGORITHM) # ""

InitDeployments ==
    /\ environ \in {env \in Environs : startup_succeeds(env)}
    /\ InitialResources
    /\ now = 0
    /\ users = InitialUsers
    /\ reset_tokens = {}
    /\ token_seq = 0
    /\ salt_seq = 2
    /\ outbox = {}
    /\ issued = {}
    /\ resets_done = [k \in PlainTokens |-> 0]
    /\ req = [w \in Workers |-> Idle]
    /\ nreq = 0
    /\ last = Answer("none", [x |-> 0], InitialSnapshot, 0, FALSE, Ok)

ArriveDeployments(w) ==
    \/ \E u \in Usernames, p \in Passwords : login_for_access_token(w, u, p)
    \/ \E t \in Presentable : get_common_dependencies(w, "get_user_me", t, [x |-> 0])
    \/ \E t \in Returned, b \in UserUpdatePydantic : get_common_dependencies(w, "update_user", t, b)

\* One request at a time, in whichever environment the application started.
NextDeployments ==
    \/ Tick
    \/ AllIdle /\ ArriveDeployments(1)
    \/ get_user_me(1)
    \/ update_user(1)

SpecDeployments == InitDeployments /\ [][NextDeployments]_vars
-----------------------------------------------------------------------------
(* Reset tokens whose account is gone. No operation of the application removes an
   account; the row can only be removed from outside, by whoever administers the
   database. *)

account_removed(id) ==
    /\ id \in DOMAIN users
    /\ users' = without(users, id)
    /\ UNCHANGED <<now, reset_tokens, token_seq, salt_seq, outbox, issued, resets_done, req, nreq, last>>
    /\ UNCHANGED resource_tables
    /\ UNCHANGED environ

ArriveOrphans(w) ==
    \/ \E e \in Emails, f \in BOOLEAN : forgot_password(w, e, f)
    \/ \E k \in PlainTokens, n \in NewPasswords : reset_scan(w, k, n)

\* One request at a time, while accounts may disappear.
NextOrphans ==
    \/ Tick
    \/ \E id \in DOMAIN users : account_removed(id)
    \/ AllIdle /\ ArriveOrphans(1)
    \/ reset_check(1)
    \/ reset_update(1)
    \/ reset_delete(1)

SpecOrphans == Init /\ [][NextOrphans]_vars
-----------------------------------------------------------------------------
(* Creating profiles and contracts *)

\* What a client sends to POST /profile and to POST /contract; neither schema has a
\* field for the owner.
ProfilePydantic == [name : {"new act"}]
ContractCreatePydantic == [name : {"new deal"}, offeree_id : {1, 2, 3}]

\* obj.id in Python: a UserAuthPydantic has the attribute, an int has not.
getattr_id(obj) ==
    IF obj.type = "UserAuthPydantic" THEN [raised |-> "none", value |-> obj.id]
    ELSE [raised |-> "AttributeError", value |-> 0]

\* POST /profile, with SQLAlchemyDataManager.create_profile(profile_data,
\* current_user_id, db): the row's user_id is the id the endpoint passes.
create_profile(w) ==
    /\ req[w].pc = "handler" /\ req[w].op = "create_profile"
    /\ profiles' = profiles @@ (Cardinality(DOMAIN profiles) + 1 :>
                      [user_id |-> req[w].current_user.id, name |-> req[w].args.body.name])
    /\ Finish(w, Ok)
    /\ UNCHANGED <<auth_state, contracts, events, accommodations>>
    /\ UNCHANGED environ

\* POST /contract, with SQLAlchemyDataManager.create_contract(contract_data,
\* current_user, db): the endpoint passes current_user.id, an int, and the data
\* manager reads current_user.id of what it is passed. Whatever is raised is rolled
\* back, re-raised and answered by handle_exceptions.
create_contract(w) ==
    /\ req[w].pc = "handler" /\ req[w].op = "create_contract"
    /\ LET passed == [type |-> "int", value |-> req[w].current_user.id]
           offeror_id == getattr_id(passed)
           contract_data == req[w].args.body
       IN  IF offeror_id.raised # "none"
           THEN Finish(w, HandledInternalError) /\ UNCHANGED contracts
           ELSE IF contract_data.offeree_id \notin DOMAIN users
           THEN Finish(w, HandledInternalError) /\ UNCHANGED contracts
           ELSE /\ contracts' = contracts @@ (Cardinality(DOMAIN contracts) + 1 :>
                                   [offeror_id |-> offeror_id.value,
                                    offeree_id |-> contract_data.offeree_id,
                                    name |-> contract_data.name])
                /\ Finish(w, Ok)
    /\ UNCHANGED <<auth_state, profiles, events, accommodations>>
    /\ UNCHANGED environ

CreateOps == {"create_profile", "create_contract"}

ArriveCreate(w) ==
    \/ \E u \in Usernames, p \in Passwords : login_for_access_token(w, u, p)
    \/ \E t \in Presentable, b \in ProfilePydantic : get_common_dependencies(w, "create_profile", t, b)
    \/ \E t \in Presentable, b \in ContractCreatePydantic :
         get_common_dependencies(w, "create_contract", t, b)
    \/ \E t \in Returned, b \in UserUpdatePydantic : get_common_dependencies(w, "update_user", t, b)

\* One request at a time.
NextCreate ==
    \/ AllIdle /\ ArriveCreate(1)
    \/ create_profile(1)
    \/ create_contract(1)
    \/ update_user(1)

SpecCreate == InitLoggedIn /\ [][NextCreate]_vars
-----------------------------------------------------------------------------
(* Change-password and reset-password on one account, served concurrently *)

NextPasswords ==
    \/ \E w \in Workers, u \in Usernames, p \in Passwords : login_for_access_token(w, u, p)
    \/ \E w \in Workers, t \in Returned, o \in Passwords, n \in NewPasswords :
         get_common_dependencies(w, "change_password", t, [old_password |-> o, new_password |-> n])
    \/ \E w \in Workers : change_password(w)
    \/ \E w \in Workers, k \in PlainTokens, n \in NewPasswords : reset_scan(w, k, n)
    \/ \E w \in Workers : reset_check(w)
    \/ \E w \in Workers : reset_update(w)
    \/ \E w \in Workers : reset_delete(w)

SpecPasswords == InitPending /\ [][NextPasswords]_vars
-----------------------------------------------------------------------------
(* Events moved between contracts *)

\* A second contract, which bob has offered alice.
BothContracts ==
    InitialContracts @@ (2 :> [offeror_id |-> 2, offeree_id |-> 1, name |-> "winter tour"])

\* alice and bob have logged in at time 0; each is the offeror of one contract.
InitEvents ==
    /\ environ = DeployedEnviron
    /\ profiles = InitialProfiles
    /\ contracts = BothContracts
    /\ events = InitialEvents
    /\ accommodations = InitialAccommodations
    /\ now = 0
    /\ users = InitialUsers
    /\ reset_tokens = {}
    /\ token_seq = 0
    /\ salt_seq = 2
    /\ outbox = {}
    /\ issued = {[token |-> create_access_token(InitialUsers[id].username, 0, AccessTtlTicks),
                  uid |-> id, at |-> 0, password |-> InitialUsers[id].password] : id \in {1, 2}}
    /\ resets_done = [k \in PlainTokens |-> 0]
    /\ req = [w \in Workers |-> Idle]
    /\ nreq = 0
    /\ last = Answer("login", [username |-> "bob", password |-> "pw_b"],
                     [InitialSnapshot EXCEPT !.contracts = BothContracts],
                     0, TRUE, Response(200, "", "", create_access_token("bob", 0, AccessTtlTicks)))

\* What a client sends to PUT /event/{event_id}: the fields it sets.
EventUpdatePydantic == [name : {"renamed"}] \cup [contract_id : ResourceIds]

ArriveEvents(w) ==
    \/ \E t \in Returned, id \in ResourceIds, b \in EventUpdatePydantic :
         get_common_dependencies(w, "update_event", t, [id |-> id, provided |-> b])
    \/ \E t \in Returned, id \in ResourceIds :
         get_common_dependencies(w, "delete_event", t, [id |-> id])

\* One request at a time.
NextEvents ==
    \/ AllIdle /\ ArriveEvents(1)
    \/ update_event(1)
    \/ delete_event(1)

SpecEvents == InitEvents /\ [][NextEvents]_vars
-----------------------------------------------------------------------------
(* Properties *)

\* The endpoints that depend on get_common_dependencies.
ProtectedOps ==
    {"get_user_me", "change_password", "update_user", "get_contract"} \cup UpdateOps \cup DeleteOps

\* The account table of a snapshot holds an account with this username.
AccountNamed(table, username) == \E id \in DOMAIN table : table[id].username = username

\* The signature is the server's and the embedded expiry, if any, is after tick t.
SignedAndUnexpired(token, t) ==
    /\ token.sig = SECRET_KEY
    /\ token.exp = NoExp \/ t < token.exp * TicksPerSecond

Unauthorized401(detail) ==
    [status |-> 401, detail |-> detail, www_authenticate |-> "Bearer",
     access_token |-> NoToken, token_type |-> ""]

LoginUnknownIdentifier ==
    /\ last.op = "login"
    /\ ~AccountNamed(last.pre.users, last.args.username)

LoginWrongPassword ==
    /\ last.op = "login"
    /\ \E id \in DOMAIN last.pre.users :
         /\ last.pre.users[id].username = last.args.username
         /\ last.pre.users[id].password.of # last.args.password

\* C1: a login for an identifier that has no account and a login for an existing
\* identifier with a wrong password get one and the same response: status 401, the
\* detail "Incorrect username or password" and WWW-Authenticate: Bearer, no token.
C1_LoginFailuresIdentical ==
    (LoginUnknownIdentifier \/ LoginWrongPassword)
        => last.resp = Unauthorized401("Incorrect username or password")

C1_Witness ==
    /\ LoginWrongPassword
    /\ last.resp.status = 401

\* C2: session resolution yields an identity exactly when the token's signature and
\* expiry verify at the time of the request, the subject claim is present and an
\* account with that username exists then; in every other case the response is the
\* 401 "Could not validate credentials", no endpoint body runs and the store is as
\* the request found it.
C2_ResolutionOnlyWhenValid ==
    /\ \A w \in Workers :
         req[w].pc = "handler" =>
            /\ SignedAndUnexpired(req[w].args.token, req[w].pre.now)
            /\ req[w].args.token.sub # NoSub
            /\ req[w].current_user.id \in DOMAIN req[w].pre.users
            /\ req[w].pre.users[req[w].current_user.id].username = req[w].args.token.sub
    /\ last.op \in ProtectedOps =>
         IF /\ SignedAndUnexpired(last.args.token, last.pre.now)
            /\ last.args.token.sub # NoSub
            /\ AccountNamed(last.pre.users, last.args.token.sub)
         THEN /\ last.identity \in DOMAIN last.pre.users
              /\ last.pre.users[last.identity].username = last.args.token.sub
         ELSE /\ last.resp = Unauthorized401("Could not validate credentials")
              /\ last.identity = 0
              /\ ~last.handler_ran
              /\ AllIdle => users = last.pre.users /\ reset_tokens = last.pre.reset_tokens

\* A token that login returned is refused because its account no longer carries
\* the username it names.
C2_Witness ==
    /\ last.op = "change_password"
    /\ last.args.token \in {i.token : i \in issued}
    /\ SignedAndUnexpired(last.args.token, last.pre.now)
    /\ ~AccountNamed(last.pre.users, last.args.token.sub)
    /\ last.resp.status = 401

\* The tick at which a token issued at tick `at` stops verifying: its expiry in whole
\* seconds, at + ttl rounded down to a second.
ExpiryTick(at) == ((at + AccessTtlTicks) \div TicksPerSecond) * TicksPerSecond

\* C3 as stated: a token issued with ttl T at time t0 verifies at every time before
\* t0 + T and fails to verify at every time after t0 + T.
C3_AcceptedUntilIssuePlusTtl ==
    \A i \in issued :
        /\ now < i.at + AccessTtlTicks => decode_ok(i.token, now)
        /\ now > i.at + AccessTtlTicks => ~decode_ok(i.token, now)

\* C3, amended: the token carries exp = t0 + T truncated to whole seconds; it verifies
\* at every time before exp and at no time from exp on, so at no time after t0 + T
\* and at every time a second or more before t0 + T; a request that presents it while
\* its account exists is refused with 401 exactly when it arrives at or after exp.
C3_AcceptedUntilTruncatedExpiry ==
    /\ \A i \in issued :
        /\ i.token.exp * TicksPerSecond = ExpiryTick(i.at)
        /\ decode_ok(i.token, now) <=> now < ExpiryTick(i.at)
        /\ now > i.at + AccessTtlTicks => ~decode_ok(i.token, now)
        /\ now + TicksPerSecond <= i.at + AccessTtlTicks => decode_ok(i.token, now)
    /\ \A i \in issued :
        (/\ last.op \in ProtectedOps
         /\ last.args.token = i.token
         /\ AccountNamed(last.pre.users, i.token.sub))
        => (last.resp.status = 401 <=> last.pre.now >= ExpiryTick(i.at))

\* A token is refused less than a second before its issue time plus ttl.
C3_Witness ==
    \E i \in issued :
        /\ last.op = "get_user_me"
        /\ last.args.token = i.token
        /\ AccountNamed(last.pre.users, i.token.sub)
        /\ last.pre.now < i.at + AccessTtlTicks
        /\ last.resp.status = 401

RowsFor(table, plaintext) == {r \in table : r.token_hash.of = plaintext}

StoreAsFound ==
    /\ users = last.pre.users
    /\ reset_tokens = last.pre.reset_tokens
    /\ outbox = last.pre.outbox

\* C5: whatever the interleaving of the reset-password requests that present one
\* plaintext token, at most one of them writes a password.
C5_ResetTokenSingleUse == \A k \in PlainTokens : resets_done[k] <= 1

\* C6: with one request served at a time, a reset-password that presents the emailed
\* plaintext of an unexpired token succeeds unless the token expires while it is
\* served; when it succeeds the owner's password is a fresh hash of the new password
\* and the token's row is gone; a reset-password that presents a plaintext no row
\* answers to, as the same plaintext does once consumed, fails with InvalidToken and
\* leaves users, reset tokens and emails as they were.
C6_ResetConsumesToken ==
    /\ \A k \in PlainTokens :
         (AllIdle /\ resets_done[k] >= 1) => RowsFor(reset_tokens, k) = {}
    /\ last.op = "reset_password" =>
         LET found == RowsFor(last.pre.reset_tokens, last.args.token) IN
         /\ \A r \in found :
               r.expires_at > last.pre.now =>
                  /\ last.resp \in {ResetDone, ExpiredTokenError}
                  /\ last.resp = ExpiredTokenError => now > r.expires_at
         /\ (AllIdle /\ last.resp = ResetDone) =>
               /\ found # {}
               /\ RowsFor(reset_tokens, last.args.token) = {}
               /\ \A r \in found :
                     /\ users[r.user_id].password.of = last.args.new_password
                     /\ users[r.user_id].password # last.pre.users[r.user_id].password
                     /\ reset_tokens = last.pre.reset_tokens \ {r}
         /\ found = {} =>
               /\ last.resp = InvalidTokenError
               /\ AllIdle => StoreAsFound

\* The second reset-password with a consumed plaintext has been refused.
C6_Witness ==
    /\ AllIdle
    /\ last.op = "reset_password"
    /\ resets_done[last.args.token] = 1
    /\ users[1].password.of = last.args.new_password
    /\ users[1].password # InitialUsers[1].password
    /\ last.resp = InvalidTokenError

\* C7: a reset-password that presents the plaintext of a row whose expiry has passed
\* when the request arrives fails with ExpiredToken, and the row is deleted.
C7_ExpiredTokenReportedAndDeleted ==
    last.op = "reset_password" =>
        \A r \in RowsFor(last.pre.reset_tokens, last.args.token) :
            r.expires_at < last.pre.now =>
                /\ last.resp = ExpiredTokenError
                /\ AllIdle => r \notin reset_tokens

\* C8: forgot-password for an email that no account has creates no reset-token row,
\* sends no email, changes no account, and answers 202 with the fixed message; an
\* accepted forgot-password for an email that has an account gets that same response.
C8_ForgotUnknownEmailSilent ==
    last.op = "forgot_password" =>
        /\ (~\E id \in DOMAIN last.pre.users : last.pre.users[id].email_address = last.args.email) =>
              /\ last.resp = [status |-> 202,
                              detail |-> "If an account with that email exists, a password reset link has been sent.",
                              www_authenticate |-> "", access_token |-> NoToken, token_type |-> ""]
              /\ AllIdle => StoreAsFound
        /\ last.resp.status = 202 =>
              last.resp.detail = "If an account with that email exists, a password reset link has been sent."

C8_Witness ==
    /\ last.op = "forgot_password"
    /\ last.args.email = "nobody@x.org"
    /\ last.resp.status = 202
    /\ StoreAsFound

\* C9: forgot-password answers 202 with its fixed message whether or not the email
\* sender failed.
C9_SendFailureNotPropagated ==
    last.op = "forgot_password" => last.resp = ForgotAccepted

\* C10: forgot-password for an email that has an account adds exactly one reset-token
\* row and leaves the others as they were; the row is owned by that account, expires
\* 60 minutes after the request, and stores a hash that the generated plaintext
\* verifies against and that no earlier row stores; the plaintext is in the email
\* handed to the sender (when there is one) and in no response; accounts are untouched.
C10_ForgotAddsOneHashedRow ==
    (AllIdle /\ last.op = "forgot_password") =>
        \A id \in DOMAIN last.pre.users :
            last.pre.users[id].email_address = last.args.email =>
                /\ Cardinality(reset_tokens \ last.pre.reset_tokens) = 1
                /\ last.pre.reset_tokens \subseteq reset_tokens
                /\ users = last.pre.users
                /\ last.resp.access_token = NoToken
                /\ last.resp.detail \in {ForgotAccepted.detail, InternalServerError.detail}
                /\ \A r \in reset_tokens \ last.pre.reset_tokens :
                      /\ r.user_id = id
                      /\ r.expires_at = last.pre.now + RESET_TOKEN_EXPIRE_MINUTES * 60 * TicksPerSecond
                      /\ r.token_hash.salt > 0
                      /\ verify_password(r.token_hash.of, r.token_hash)
                      /\ RowsFor(last.pre.reset_tokens, r.token_hash.of) = {}
                      /\ \A o \in last.pre.reset_tokens : o.id # r.id /\ o.token_hash # r.token_hash
                      /\ ~\E m \in last.pre.outbox : m.token = r.token_hash.of
                      /\ outbox \ last.pre.outbox \subseteq
                            {[to |-> last.pre.users[id].email_address, token |-> r.token_hash.of,
                              frontend_url |-> FrontendUrl]}
                      /\ last.resp.status = 202 => outbox # last.pre.outbox

\* A second reset token was created beside one that is still outstanding.
C10_Witness ==
    /\ AllIdle
    /\ last.op = "forgot_password"
    /\ last.resp.status = 202
    /\ last.pre.reset_tokens # {}
    /\ Cardinality(reset_tokens) = 2
    /\ Cardinality(outbox) = 2
\* C11: a change-password whose old-password attempt does not match the stored hash
\* is answered 400 "Incorrect old password." and leaves every account as it was: the
\* password the account had still authenticates at login, and the attempted new
\* password, when it is not that password, does not.
C11_WrongOldPasswordChangesNothing ==
    (last.op = "change_password" /\ last.handler_ran) =>
        LET stored == last.pre.users[last.identity]
            body == last.args.body
        IN  ~verify_password(body.old_password, stored.password) =>
                /\ last.resp = IncorrectOldPassword
                /\ AllIdle =>
                      /\ users = last.pre.users
                      /\ authenticate_user(stored.username, stored.password.of).id = last.identity
                      /\ body.new_password # stored.password.of =>
                            authenticate_user(stored.username, body.new_password) = NoUser

\* alice, whose password is pw_a, offered pw_b as her old password.
C11_Witness ==
    /\ AllIdle
    /\ last.op = "change_password"
    /\ last.resp = IncorrectOldPassword
    /\ last.identity = 1
    /\ last.args.body.new_password # users[1].password.of
    /\ authenticate_user("alice", "pw_a").id = 1
\* C12: whenever a reset-password or a change-password request is answered with a
\* failure, the accounts, and so every stored password hash, are as they were when
\* the request arrived.
C12_FailureChangesNoCredential ==
    (AllIdle /\ last.op \in {"reset_password", "change_password"} /\ last.resp.status # 200) =>
        \A id \in DOMAIN last.pre.users : users[id].password = last.pre.users[id].password
\* The account a bearer token's subject names in a table of accounts, 0 for none.
CallerId(table, token) ==
    IF \E id \in DOMAIN table : table[id].username = token.sub
    THEN CHOOSE id \in DOMAIN table : table[id].username = token.sub
    ELSE 0

\* C13: fetching an existing profile with the bearer token of an account that does
\* not own it fails with OwnershipMismatch (403), and fetching it with the owner's
\* token succeeds.
C13_ProfileFetchOwnershipGuard ==
    (last.op = "get_profile" /\ last.args.body.id \in DOMAIN last.pre.profiles) =>
        LET owner == last.pre.profiles[last.args.body.id].user_id
            caller == CallerId(last.pre.users, last.args.token)
        IN  /\ (caller # 0 /\ caller # owner) => last.resp = ResourceUserMismatch
            /\ caller = owner => last.resp = Ok
\* The table an update or delete operation works on, in a snapshot of the store.
TableOf(op, store) ==
    CASE op \in {"update_profile", "delete_profile"} -> store.profiles
      [] op \in {"update_contract"} -> store.contracts
      [] op \in {"update_event", "delete_event"} -> store.events
      [] op \in {"update_accommodation", "delete_accommodation"} -> store.accommodations

\* The identities that own a resource: a profile's user, a contract's offeror, the
\* offeror of an event's contract, the offerors of the events lodged in an accommodation.
OwnersOf(op, store, id) ==
    CASE op \in {"update_profile", "delete_profile"} -> {store.profiles[id].user_id}
      [] op \in {"update_contract"} -> {store.contracts[id].offeror_id}
      [] op \in {"update_event", "delete_event"} ->
            {store.contracts[store.events[id].contract_id].offeror_id}
      [] op \in {"update_accommodation", "delete_accommodation"} ->
            {store.contracts[store.events[e].contract_id].offeror_id :
                e \in {e \in DOMAIN store.events : store.events[e].accommodation_id = id}}

ResourcesAsFound ==
    /\ profiles = last.pre.profiles
    /\ contracts = last.pre.contracts
    /\ events = last.pre.events
    /\ accommodations = last.pre.accommodations

\* C14: an update or delete of a profile, contract, event or accommodation whose id
\* does not exist fails with ResourceNotFound (404); one whose id exists and whose
\* owner is not the caller fails with OwnershipMismatch (403); either way the stored
\* resources are unchanged.
C14_UpdateDeleteGuarded ==
    (last.op \in UpdateOps \cup DeleteOps /\ last.handler_ran) =>
        LET table == TableOf(last.op, last.pre)
            id == last.args.body.id
        IN  /\ id \notin DOMAIN table =>
                 /\ last.resp = ResourceNotFound
                 /\ AllIdle => ResourcesAsFound
            /\ (id \in DOMAIN table /\ OwnersOf(last.op, last.pre, id) # {}
                  /\ last.identity \notin OwnersOf(last.op, last.pre, id)) =>
                 /\ last.resp = ResourceUserMismatch
                 /\ AllIdle => ResourcesAsFound
\* C15: reading an existing contract succeeds for its offeror and for its offeree
\* and fails for every other caller; updating it succeeds for its offeror, and an
\* offeree's update fails with OwnershipMismatch (403) and changes nothing.
C15_ContractTwoPartyAccess ==
    (last.op \in {"get_contract", "update_contract"} /\ last.handler_ran
       /\ last.args.body.id \in DOMAIN last.pre.contracts) =>
        LET contract == last.pre.contracts[last.args.body.id] IN
        /\ last.op = "get_contract" =>
              (last.resp.status = 200 <=> last.identity \in {contract.offeror_id, contract.offeree_id})
        /\ last.op = "update_contract" =>
              /\ last.identity = contract.offeror_id => last.resp.status = 200
              /\ (last.identity = contract.offeree_id /\ last.identity # contract.offeror_id) =>
                    /\ last.resp = ResourceUserMismatch
                    /\ AllIdle => ResourcesAsFound
\* C16: the body of an endpoint that depends on get_common_dependencies runs only
\* for an identity whose account was active when the request was resolved; a token
\* that resolves to an inactive account is answered 400 "Inactive user", the body
\* does not run and the store is untouched, and that answer is not the 401 of a
\* failed resolution.
C16_InactiveAccountStopped ==
    /\ InactiveUser # CredentialsException
    /\ \A w \in Workers : req[w].pc = "handler" => req[w].pre.users[req[w].current_user.id].is_active
    /\ last.op \in ProtectedOps =>
         /\ last.handler_ran =>
               /\ last.identity \in DOMAIN last.pre.users
               /\ last.pre.users[last.identity].is_active
         /\ (last.identity # 0 /\ ~last.pre.users[last.identity].is_active) =>
               /\ last.resp = InactiveUser
               /\ last.resp.status = 400
               /\ ~last.handler_ran
               /\ AllIdle => users = last.pre.users /\ ResourcesAsFound
         /\ last.resp = InactiveUser =>
               /\ last.identity # 0
               /\ ~last.pre.users[last.identity].is_active

\* alice has deactivated her account and then asked for her own contract.
C16_Witness ==
    /\ last.op = "get_contract"
    /\ last.identity = 1
    /\ ~users[1].is_active
    /\ last.resp = InactiveUser
    /\ ~last.handler_ran
\* A registration asks for a username or an email address that an account has.
AlreadyHeld(table, user_data) ==
    \E id \in DOMAIN table :
        \/ table[id].username = user_data.username
        \/ table[id].email_address = user_data.email_address

\* C17: a registration whose username or email address an existing account holds is
\* answered 409 and creates no account; the existing accounts are unchanged, and
\* each still authenticates with its own password.
C17_DuplicateRegistrationRefused ==
    (last.op = "sign_up" /\ AlreadyHeld(last.pre.users, last.args.user_data)) =>
        /\ last.resp.status = 409
        /\ AllIdle =>
              /\ users = last.pre.users
              /\ \A id \in DOMAIN users :
                    authenticate_user(users[id].username, users[id].password.of).id = id
\* C18: after any interleaving of registrations and account updates, no two
\* accounts have the same username and no two have the same email address.
C18_IdentitiesUnique ==
    \A a \in DOMAIN users : \A b \in DOMAIN users :
        a # b => /\ users[a].username # users[b].username
                 /\ users[a].email_address # users[b].email_address

\* An account was registered next to the first two, and an update that asked for
\* another account's email address has been answered.
C18_Witness ==
    /\ Cardinality(DOMAIN users) >= 3
    /\ last.op = "update_user" /\ last.handler_ran
    /\ "email_address" \in DOMAIN last.args.body
    /\ \E o \in DOMAIN users :
          /\ o # last.identity
          /\ users[o].email_address = last.args.body.email_address
\* C19: a registration whose commit fails for a reason other than uniqueness is
\* answered 500, never 409, and its response differs from the response a
\* registration with a taken username or email address gets.
C19_StoreFailureDistinctFromDuplicate ==
    (last.op = "sign_up" /\ last.args.store = "down") =>
        /\ last.resp.status = 500
        /\ last.resp # handle_exceptions(sign_up_outcome(register_user("ValueError")))

\* The details the endpoints write out in full for their 500 responses.
GenericMessages ==
    {"Internal server error",
     "An unexpected error occurred during user registration.",
     "An internal error occurred while changing password.",
     "An internal error occurred. Please try again or contact support."}

\* C20: every 500 of register, change-password and reset-password carries one of
\* the fixed generic messages, never the text of the exception behind it.
C20_InternalErrorsGeneric ==
    (last.op \in {"sign_up", "change_password", "reset_password"} /\ last.resp.status = 500) =>
        last.resp.detail \in GenericMessages
\* C21: a login with the username of an account and the password that verifies
\* against its stored hash is answered 200 with a non-empty access token of type
\* "bearer", whose subject is the account's username and whose expiry, in whole
\* seconds, is the login time plus the configured ACCESS_TOKEN_EXPIRE_MINUTES.
C21_LoginIssuesConfiguredBearer ==
    (last.op = "login" /\
       \E id \in DOMAIN last.pre.users :
          /\ last.pre.users[id].username = last.args.username
          /\ verify_password(last.args.password, last.pre.users[id].password)) =>
        /\ last.resp.status = 200
        /\ last.resp.access_token # NoToken
        /\ last.resp.token_type = "bearer"
        /\ last.resp.access_token.sub = last.args.username
        /\ last.resp.access_token.exp =
              (last.pre.now \div TicksPerSecond) + ACCESS_TOKEN_EXPIRE_MINUTES * 60

\* A login that succeeded half a second past a whole second.
C21_Witness ==
    /\ last.op = "login"
    /\ last.resp.status = 200
    /\ last.pre.now % TicksPerSecond # 0
C23_IssueAndVerifyAgree ==
    \A i \in issued :
        (/\ last.op \in ProtectedOps
         /\ last.args.token = i.token
         /\ i.token.exp * TicksPerSecond > last.pre.now
         /\ i.uid \in DOMAIN last.pre.users
         /\ last.pre.users[i.uid].username = i.token.sub
         /\ last.pre.users[i.uid].password = i.password)
        => /\ last.resp.status # 401
           /\ last.identity = i.uid
\* C24: a reset-password whose token matches an unexpired row owned by an account
\* that no longer exists is answered 500 (OrphanedToken), the row is deleted and
\* nothing else is: no other row goes, no account's password changes.
C24_OrphanedTokenCleanedUp ==
    \A r \in RowsFor(last.pre.reset_tokens, IF last.op = "reset_password" THEN last.args.token ELSE 0) :
        (/\ last.op = "reset_password"
         /\ AllIdle
         /\ r.expires_at > last.pre.now
         /\ r.expires_at >= now
         /\ r.user_id \notin DOMAIN last.pre.users)
        => /\ last.resp = UserNotFoundError
           /\ last.resp.status = 500
           /\ reset_tokens = last.pre.reset_tokens \ {r}
           /\ \A id \in DOMAIN users \cap DOMAIN last.pre.users :
                 users[id].password = last.pre.users[id].password

\* The reset was asked for with the token of an account that had been removed, and
\* has been answered.
C24_Witness ==
    /\ last.op = "reset_password"
    /\ AllIdle
    /\ \E r \in RowsFor(last.pre.reset_tokens, last.args.token) :
          /\ r.expires_at > last.pre.now
          /\ r.user_id \notin DOMAIN last.pre.users
          /\ r \notin reset_tokens
    /\ last.resp.status = 500
\* C25: a create request for a profile or a contract whose caller was resolved
\* stores one new row, and the row's owner (user_id, offeror_id) is the id of the
\* resolved caller.
C25_CreatedRowOwnedByCaller ==
    (last.op \in CreateOps /\ last.handler_ran /\ AllIdle) =>
        LET before == IF last.op = "create_profile" THEN last.pre.profiles ELSE last.pre.contracts
            after == IF last.op = "create_profile" THEN profiles ELSE contracts
            new == DOMAIN after \ DOMAIN before
        IN  /\ Cardinality(new) = 1
            /\ \A id \in new :
                  (IF last.op = "create_profile" THEN after[id].user_id ELSE after[id].offeror_id)
                     = last.identity
            /\ last.identity = CallerId(last.pre.users, last.args.token)
\* C26: a request that presents a token login issued for an account is refused
\* with 401 or runs as that account, whatever registrations and renames have
\* happened since; it never runs as another account.
C26_TokenBoundToItsAccount ==
    \A i \in issued :
        (last.op \in ProtectedOps /\ last.args.token = i.token) =>
            \/ last.resp.status = 401
            \/ last.identity = i.uid
\* C27: whatever the interleaving of change-password and reset-password requests
\* on an account, the step in which a change-password request succeeds finds its
\* old-password attempt matching the hash the store holds for the account at that
\* moment.
C27_ChangeVerifiesStoredHash ==
    [][\A w \in Workers :
          (/\ req[w].pc = "handler"
           /\ req[w].op = "change_password"
           /\ req'[w].pc = "idle"
           /\ last'.resp.status = 200)
          => verify_password(req[w].args.body.old_password, users[req[w].current_user.id].password)]_vars
\* C28: with one request served at a time, a successful reset-password removes the
\* row its token matched and no other, and every other row is as it was; a token
\* whose row is still there and unexpired, one of the same account included, then
\* serves for a later successful reset.
C28_ResetDeletesOnlyConsumedRow ==
    (last.op = "reset_password" /\ AllIdle) =>
        LET found == RowsFor(last.pre.reset_tokens, last.args.token) IN
        /\ last.resp = ResetDone =>
              /\ Cardinality(found) = 1
              /\ reset_tokens = last.pre.reset_tokens \ found
        /\ \A r \in found :
              (r.expires_at > last.pre.now /\ r.expires_at >= now) => last.resp = ResetDone

\* Two tokens were outstanding for one account; one was consumed, and then the
\* other has served for a second successful reset.
C28_Witness ==
    /\ AllIdle
    /\ last.op = "reset_password"
    /\ last.resp = ResetDone
    /\ resets_done[1] = 1 /\ resets_done[2] = 1
    /\ \E r \in last.pre.reset_tokens :
          /\ r.user_id = 1
          /\ r.token_hash.of = last.args.token
    /\ \E e \in outbox : e.to = "alice@x.org" /\ e.token = 1
    /\ \E e \in outbox : e.to = "alice@x.org" /\ e.token = 2
    /\ reset_tokens = {}
\* C29: login does not look at the active flag: a login with the username and the
\* password of an account whose flag is false is answered 200 with a token for that
\* username; the flag is looked at when a later request presents the token, which
\* is then answered 400 "Inactive user".
C29_LoginIgnoresActiveFlag ==
    /\ (last.op = "login" /\
          \E id \in DOMAIN last.pre.users :
             /\ last.pre.users[id].username = last.args.username
             /\ verify_password(last.args.password, last.pre.users[id].password)
             /\ ~last.pre.users[id].is_active) =>
           /\ last.resp.status = 200
           /\ last.resp.access_token # NoToken
           /\ last.resp.access_token.sub = last.args.username
    /\ \A i \in issued :
          (/\ last.op \in ProtectedOps
           /\ last.args.token = i.token
           /\ last.identity = i.uid
           /\ ~last.pre.users[i.uid].is_active) => last.resp = InactiveUser

\* An account whose flag is false has logged in.
C29_Witness ==
    /\ last.op = "login"
    /\ last.resp.status = 200
    /\ \E id \in DOMAIN last.pre.users :
          /\ last.pre.users[id].username = last.args.username
          /\ ~last.pre.users[id].is_active
\* C30: when an update of an event is answered with an error, the stored events
\* are as they were before the request.
C30_FailedEventUpdateChangesNothing ==
    (last.op = "update_event" /\ AllIdle /\ last.resp.status # 200) =>
        events = last.pre.events
====
